---- MODULE Spec2Model ----
(***************************************************************************)
(* A model of leadscraper/scraper.py (LeadTube).                           *)
(*                                                                         *)
(* SpecRotator models YouTubeClientManager: the key pool, the cursor, the  *)
(* lock of get_client and the retry loop of api_request, run by the        *)
(* coordinating thread and by the worker-pool threads that process_keyword *)
(* submits.                                                                *)
(*                                                                         *)
(* Spec models run_scraper and process_keyword: the worksheet (the sink),  *)
(* the checkpoint file, the DedupSet, the page loop of one keyword, the    *)
(* stop flag, and a crash of the process followed by a new run.            *)
(*                                                                         *)
(* SpecCodec models save_checkpoint followed by load_checkpoint on any     *)
(* well-formed checkpoint: json.dump and json.load, as what they write and *)
(* read.                                                                   *)
(***************************************************************************)
EXTENDS Integers, Sequences, FiniteSets, TLC

\* ---------------------------------------------------------------- bounds
\* Largest key pool (settings['youtube_api_keys']) the model builds.
MaxKeys == 2
\* Largest number of worker-pool tasks in flight at once.
MaxWorkers == 2
\* Largest number of failing invocations func(yt) among the requests in flight.
MaxFaults == 2

\* Channel ids the remote API can return: 1..MaxChannels.
MaxChannels == 2
\* Length of params['keywords'].
MaxKeywords == 2
\* Page tokens the remote API can return: 1..MaxToken.
MaxToken == 2
\* config.MAX_VALID_PER_KEYWORD (100 in config.py), scaled to the channels
\* the model has.
MAX_VALID_PER_KEYWORD == 2
\* params['min_subs'] and params['max_subs'] of the run.
min_subs == 1
max_subs == 2

\* max_pages of process_keyword (6 in scraper.py), scaled to the pages the
\* model has.
max_pages == 2

\* ------------------------------------------------------------- constants
\* The prefix "https://www.youtube.com/channel/" of a channel URL, as an
\* offset added to the channel id.
URL_PREFIX == 100
\* The HTTP statuses api_request treats as quota-class.
HTTP_FORBIDDEN == 403
HTTP_TOO_MANY == 429
\* An HTTP status that is not quota-class.
HTTP_SERVER_ERROR == 500

\* The coordinating thread (the one that runs process_keyword).
MAIN == 0
Workers == 1..MaxWorkers
Threads == {MAIN} \cup Workers
NoThread == -1
\* current_key_index before __init__ has assigned it.
Unset == -1

\* What one invocation func(yt) can do: return, raise HttpError with a
\* status, or raise any other exception.
HttpStatuses == {HTTP_FORBIDDEN, HTTP_TOO_MANY, HTTP_SERVER_ERROR}
Outcomes ==
    {[kind |-> "ok", status |-> 0]}
        \cup {[kind |-> "HttpError", status |-> s] : s \in HttpStatuses}
        \cup {[kind |-> "Exception", status |-> 0]}

NoExc == [kind |-> "None", status |-> 0, attempt |-> 0]
NoRet == [kind |-> "none", attempt |-> 0, key |-> 0, exc |-> NoExc]

VARIABLES
    api_keys,           \* YouTubeClientManager.api_keys: the pool, a sequence of keys
    mgr,                \* "unbuilt" | "ready" | "ValueError": outcome of __init__
    current_key_index,  \* YouTubeClientManager.current_key_index (0-based)
    key_lock,           \* YouTubeClientManager.key_lock: the holder, or NoThread
    tpc,                \* each thread's position in api_request / get_client
    attempt,            \* each thread's count of iterations begun by the for loop
    yt,                 \* each thread's key bound to the client get_client returned
    last_exc,           \* each thread's last_exc
    calls,              \* each thread's invocations func(yt) of the current request
    ret,                \* each thread's outcome of api_request
    grants              \* the last Len(api_keys) grants of get_client, in order

rotVars == <<api_keys, mgr, current_key_index, key_lock, tpc, attempt, yt,
             last_exc, calls, ret, grants>>

VARIABLES
    sheet,              \* the worksheet: its rows, as get_all_values returns them
    file,               \* config.CHECKPOINT_FILE on disk
    last_saved,         \* what the file held when the last save_checkpoint completed
    pc,                 \* the position of the thread that runs run_scraper
    result,             \* how the last run ended ("running" during a run)
    entry,              \* "run_scraper", or "process_keyword" when called directly
    stop,               \* should_stop(): the GUI's `not self._is_running`
    all_values,         \* run_scraper's all_values (line 239)
    existing_channels,  \* the DedupSet
    checkpoint,         \* the checkpoint dict in memory
    loaded,             \* what load_checkpoint returned to this run
    kwi,                \* the index of `kw` in params['keywords'] (1-based)
    keyword,            \* process_keyword's keyword (0: not in process_keyword)
    next_page_token,    \* process_keyword's next_page_token
    channels_added_for_kw,
    pages_processed,
    search_result,      \* the search response of the current page: its nextPageToken
    channel_ids,        \* the ids of the page whose detail records are not yet filtered
    candidate_channels, \* ids of the candidates of the current page
    futures,            \* candidates whose future as_completed has not yielded
    rows_to_append,
    first_token,        \* per keyword: the pageToken of this run's first search
    total_added,
    ended_by,           \* how process_keyword left its while loop ("": it has not)
    searches,           \* the search requests this call of process_keyword has issued
    existing_header,    \* setup_worksheet's existing_header (line 84)
    app_settings,       \* gui.py: what settings.load_settings() gave the run
    log,                \* the run's error.emit calls, load warnings, final summary
    remote              \* whether the run has called the sink, the search API

persistVars == <<sheet, file, last_saved>>
pageVars == <<search_result, channel_ids, candidate_channels, futures, rows_to_append>>
kwVars == <<keyword, next_page_token, channels_added_for_kw, pages_processed, ended_by,
           searches>>
runVars == <<all_values, checkpoint, loaded, kwi, total_added, entry, existing_header>>
ioVars == <<app_settings, log, remote>>
scrVars == <<persistVars, pc, result, stop, existing_channels, runVars, kwVars,
             pageVars, first_token, ioVars>>

vars == <<rotVars, scrVars>>

\* ------------------------------------------------- run_scraper: the data

Channels == 1..MaxChannels
Keywords == 1..MaxKeywords
\* params['keywords']
keywords == [i \in 1..MaxKeywords |-> i]
Tokens == 1..MaxToken
\* None as a page token (no pageToken in the request, no nextPageToken in
\* the response).
NoToken == 0
\* A key that a dict of the checkpoint does not hold.
Missing == -1
\* first_token of a keyword this run has not searched.
NotSearched == -2
\* A detail record without an "id".
NoId == 0

\* f"https://www.youtube.com/channel/{channel_id}"
ChannelUrl(channel_id) == URL_PREFIX + channel_id

\* header = ["channelTitle", "emails", "channelUrl", "keyword"]: the cells of
\* the header row are 0 (no channel, no keyword), its emails cell is empty.
Header == [title |-> 0, emails |-> {}, url |-> 0, keyword |-> 0]

\* [candidate["title"], ", ".join(candidate["emails"]), candidate["url"], keyword]
Row(c, emails, kw) ==
    [title |-> c, emails |-> emails, url |-> ChannelUrl(c), keyword |-> kw]

\* A checkpoint without the key "processed_channels".
NoSnapshot == <<Missing>>

\* {}: the checkpoint load_checkpoint returns when there is nothing to load.
EmptyCheckpoint ==
    [positions |-> [k \in Keywords |-> Missing],
     keywords_done |-> [k \in Keywords |-> Missing],
     processed_channels |-> NoSnapshot]

\* ------------------------------------------------ json.dump and json.load
\* A JSON document is kept as the set of its members: the top-level key
\* (name), the key or list index below it, and the JSON value found there.
\* Keywords, cursors and URLs are strings, counts are numbers, None is null.
JsonNull == [t |-> "null", v |-> 0]
JsonString(str) == [t |-> "string", v |-> str]
JsonNumber(n) == [t |-> "number", v |-> n]
\* A list of n elements (held at index 0; its elements at 1..n).
JsonArray(n) == [t |-> "array", v |-> n]
Member(name, key, val) == [name |-> name, key |-> key, val |-> val]

\* A cursor is written as a string, None as null, and read back likewise.
DumpCursor(token) == IF token = NoToken THEN JsonNull ELSE JsonString(token)
LoadCursor(json) == IF json.t = "null" THEN NoToken ELSE json.v

\* An encoder that leaves out the members whose value is None.
DumpPositionsNoNull(positions) ==
    {Member("positions", k, DumpCursor(positions[k])) :
        k \in {x \in Keywords : positions[x] \notin {Missing, NoToken}}}

\* json.dump of checkpoint["positions"]: one member per key of the dict.
DumpPositions(positions) ==
    {Member("positions", k, DumpCursor(positions[k])) :
        k \in {x \in Keywords : positions[x] # Missing}}

\* json.dump of checkpoint["keywords_done"]
DumpCounts(done) ==
    {Member("keywords_done", k, JsonNumber(done[k])) :
        k \in {x \in Keywords : done[x] # Missing}}

\* json.dump of checkpoint["processed_channels"], if the key is there.
DumpSnapshot(urls) ==
    IF urls = NoSnapshot THEN {}
    ELSE {Member("processed_channels", 0, JsonArray(Len(urls)))}
         \cup {Member("processed_channels", i, JsonString(urls[i])) : i \in 1..Len(urls)}

\* json.dump(checkpoint_data, f, indent=4)
json_dump(cp) ==
    DumpPositions(cp.positions) \cup DumpCounts(cp.keywords_done)
        \cup DumpSnapshot(cp.processed_channels)

HasMember(text, name, key) == \E m \in text : m.name = name /\ m.key = key
ValueAt(text, name, key) == (CHOOSE m \in text : m.name = name /\ m.key = key).val

\* json.load(f)
json_load(text) ==
    [positions |->
        [k \in Keywords |-> IF HasMember(text, "positions", k)
                            THEN LoadCursor(ValueAt(text, "positions", k))
                            ELSE Missing],
     keywords_done |->
        [k \in Keywords |-> IF HasMember(text, "keywords_done", k)
                            THEN ValueAt(text, "keywords_done", k).v
                            ELSE Missing],
     processed_channels |->
        IF HasMember(text, "processed_channels", 0)
        THEN [i \in 1..ValueAt(text, "processed_channels", 0).v |->
                 ValueAt(text, "processed_channels", i).v]
        ELSE NoSnapshot]

\* ------------------------------------------------- the checkpoint file
AbsentFile == [state |-> "absent", data |-> {}]
\* The file after open(..., "w") and before json.dump has written it all:
\* empty or cut short, not JSON.
TruncatedFile == [state |-> "truncated", data |-> {}]
\* A file whose text is not JSON: json.load raises JSONDecodeError.
CorruptFile == [state |-> "corrupt", data |-> {}]
\* A file that exists and that open(..., "r") refuses (PermissionError,
\* IsADirectoryError): an OSError that is not FileNotFoundError.
UnreadableFile == [state |-> "unreadable", data |-> {}]
WrittenFile(cp) == [state |-> "ok", data |-> json_dump(cp)]

\* checkpoint.get("positions", {}).get(keyword)
SavedPosition(cp, kw) ==
    IF cp.positions[kw] = Missing THEN NoToken ELSE cp.positions[kw]

\* checkpoint.get("keywords_done", {}).get(keyword, 0)
SavedCount(cp, kw) ==
    IF cp.keywords_done[kw] = Missing THEN 0 ELSE cp.keywords_done[kw]

\* load_checkpoint: the file's content, or {} when the file is absent or
\* json.load fails on it.
load_checkpoint(f) == IF f.state = "ok" THEN json_load(f.data) ELSE EmptyCheckpoint

\* Lines 98 and 100: open raises an error the except clause does not name;
\* it leaves load_checkpoint.
LoadRaises(f) == f.state = "unreadable"

\* Lines 100-101: json.load raises JSONDecodeError; a warning is logged.
LoadWarns(f) == f.state \in {"truncated", "corrupt"}

\* A seeding that finds no URL.
SeedNothing(values) == {}

\* set(row[2] for row in all_values[1:] if len(row) >= 3)
SeedUrls(values) == {values[i].url : i \in 2..Len(values)}

\* The sheets a first run can find: empty, the header alone, the header and
\* a row of an earlier session, a sheet whose first row is not the header.
InitSheets ==
    {<<>>, <<Header>>, <<Header, Row(1, {1}, 1)>>, <<Row(1, {1}, 1)>>}

\* A checkpoint file left by an earlier session on another sheet: keyword 1
\* saved with a cursor and one channel added.
EarlierCheckpoint ==
    [EmptyCheckpoint EXCEPT !.positions[1] = 1, !.keywords_done[1] = 1]

\* The checkpoint files a first run can find.
InitFiles == {AbsentFile, CorruptFile, UnreadableFile, WrittenFile(EarlierCheckpoint)}

\* settings.load_settings(): for each entry, whether it has a value (a
\* non-empty list of keys, a non-empty string).
Settings ==
    [youtube_api_keys : BOOLEAN, sheet_id : BOOLEAN, sheet_name : BOOLEAN,
     service_account_file : BOOLEAN]

ValidSettings ==
    [youtube_api_keys |-> TRUE, sheet_id |-> TRUE, sheet_name |-> TRUE,
     service_account_file |-> TRUE]

\* Nothing logged yet: no error.emit, no warning of load_checkpoint, no
\* final summary.
NoLog == [errors |-> 0, warnings |-> 0, summary |-> Missing]

NoCalls == [sink |-> FALSE, api |-> FALSE]

\* search_result before the first search of a keyword.
NoSearch == [nextPageToken |-> NoToken]

\* The locals of run_scraper and process_keyword when no run has started.
ScrIdle ==
    /\ result = "none"
    /\ entry = "run_scraper"
    /\ stop = FALSE
    /\ all_values = <<>>
    /\ existing_channels = {}
    /\ loaded = EmptyCheckpoint
    /\ kwi = 1
    /\ keyword = 0
    /\ next_page_token = NoToken
    /\ channels_added_for_kw = 0
    /\ pages_processed = 0
    /\ ended_by = ""
    /\ searches = 0
    /\ existing_header = <<>>
    /\ search_result = NoSearch
    /\ channel_ids = {}
    /\ candidate_channels = {}
    /\ futures = {}
    /\ rows_to_append = <<>>
    /\ first_token = [k \in Keywords |-> NotSearched]
    /\ total_added = 0
    /\ app_settings = ValidSettings
    /\ log = NoLog
    /\ remote = NoCalls

ScrQuiet ==
    /\ sheet = <<Header>>
    /\ file = AbsentFile
    /\ last_saved = AbsentFile
    /\ pc = "idle"
    /\ checkpoint = EmptyCheckpoint
    /\ ScrIdle

ScrInit ==
    /\ sheet \in InitSheets
    /\ file \in InitFiles
    /\ last_saved = (IF file.state = "ok" THEN file ELSE AbsentFile)
    /\ pc = "idle"
    /\ checkpoint = EmptyCheckpoint
    /\ ScrIdle

\* The rotator while Spec runs: api_request is taken as a whole there (it
\* returns a response or raises).
RotQuiet ==
    /\ api_keys = <<1>>
    /\ mgr = "unbuilt"
    /\ current_key_index = Unset
    /\ key_lock = NoThread
    /\ tpc = [t \in Threads |-> "idle"]
    /\ attempt = [t \in Threads |-> 0]
    /\ yt = [t \in Threads |-> 0]
    /\ last_exc = [t \in Threads |-> NoExc]
    /\ calls = [t \in Threads |-> <<>>]
    /\ ret = [t \in Threads |-> NoRet]
    /\ grants = <<>>

\* The locals of a run before it has set them.
ResetRun ==
    /\ all_values' = <<>>
    /\ existing_channels' = {}
    /\ checkpoint' = EmptyCheckpoint
    /\ loaded' = EmptyCheckpoint
    /\ kwi' = 1
    /\ total_added' = 0
    /\ first_token' = [k \in Keywords |-> NotSearched]

ResetKeyword ==
    /\ keyword' = 0
    /\ next_page_token' = NoToken
    /\ channels_added_for_kw' = 0
    /\ pages_processed' = 0
    /\ ended_by' = ""
    /\ searches' = 0

ResetPage ==
    /\ search_result' = NoSearch
    /\ channel_ids' = {}
    /\ candidate_channels' = {}
    /\ futures' = {}
    /\ rows_to_append' = <<>>

\* A caller that lets the failure of a request pass without a report.
ErrorsButApi == {"TypeError", "LoadError", "SinkError"}

\* The exceptions that leave run_scraper; gui.py line 65 reports each with
\* one error.emit.
Errors == {"TypeError", "ApiError", "LoadError", "SinkError"}

\* The run ends: run_scraper returns after the final summary of line 267
\* (how = "done"), process_keyword returns to a direct caller ("returned"),
\* or an exception leaves run_scraper. The locals of the page are gone.
EndRun(how) ==
    /\ pc' = "idle"
    /\ result' = how
    /\ log' = IF how \in Errors THEN [log EXCEPT !.errors = @ + 1]
              ELSE IF how = "done" THEN [log EXCEPT !.summary = total_added]
              ELSE log
    /\ ResetPage

\* --------------------------------------------- setup_worksheet, run_scraper

\* A setup that writes the header to an empty sheet only.
setup_worksheet_keep(values) == IF values = <<>> THEN <<Header>> ELSE values

\* Lines 83-88: the sheet with its header checked and, if missing or
\* different, the sheet cleared and the header appended.
setup_worksheet(values) ==
    IF values = <<>> \/ values[1] # Header THEN <<Header>> ELSE values

\* gui.py lines 51-56: the worker's validation of the settings.
SettingsAccepted(s) ==
    s.youtube_api_keys /\ s.sheet_id /\ s.service_account_file

\* gui.py ScraperWorker.run (with __init__: _is_running = True) and lines
\* 233-236: a run starts with the settings s, from the GUI through
\* run_scraper, or by a direct call of process_keyword on the same state
\* (with valid settings). Settings the worker rejects: one error.emit and
\* the run is over. Otherwise setup_worksheet opens the spreadsheet (lines
\* 68-69) and asks it for the worksheet settings["sheet_name"] (lines 78-81);
\* for an empty name the sink answers with an error, which leaves run_scraper.
RunStart(e, s) ==
    /\ pc = "idle"
    /\ e = "process_keyword" => s = ValidSettings
    /\ entry' = e
    /\ stop' = FALSE
    /\ app_settings' = s
    /\ ResetRun /\ ResetKeyword /\ ResetPage
    /\ IF ~SettingsAccepted(s)
       THEN /\ pc' = "idle"
            /\ result' = "ConfigError"
            /\ log' = [NoLog EXCEPT !.errors = 1]
            /\ remote' = NoCalls
            /\ existing_header' = <<>>
            /\ UNCHANGED sheet
       ELSE IF ~s.sheet_name
       THEN /\ pc' = "idle"
            /\ result' = "SinkError"
            /\ log' = [NoLog EXCEPT !.errors = 1]
            /\ remote' = [NoCalls EXCEPT !.sink = TRUE]
            /\ existing_header' = <<>>
            /\ UNCHANGED sheet
       ELSE /\ pc' = "seed"
            /\ result' = "running"
            /\ log' = NoLog
            /\ remote' = [NoCalls EXCEPT !.sink = TRUE]
            /\ existing_header' = sheet
            /\ sheet' = setup_worksheet(sheet)
    /\ UNCHANGED <<file, last_saved>>
    /\ UNCHANGED rotVars

\* Lines 238-245: seed the DedupSet from the sheet, load the checkpoint.
RunSeed ==
    /\ pc = "seed"
    /\ all_values' = sheet
    /\ existing_channels' = SeedUrls(sheet)
    /\ IF LoadRaises(file)
       THEN /\ EndRun("LoadError")
            /\ UNCHANGED <<checkpoint, loaded>>
       ELSE /\ checkpoint' = load_checkpoint(file)
            /\ loaded' = load_checkpoint(file)
            /\ log' = IF LoadWarns(file) THEN [log EXCEPT !.warnings = @ + 1] ELSE log
            /\ pc' = IF entry = "run_scraper" THEN "for" ELSE "direct"
            /\ UNCHANGED <<result, pageVars>>
    /\ total_added' = 0
    /\ kwi' = 1
    /\ UNCHANGED <<persistVars, stop, entry, existing_header, kwVars, first_token,
                   app_settings, remote>>
    /\ UNCHANGED rotVars

\* A wrong comparison of the running count with the cap.
WhileGuardNoCap(pages, count) == pages < max_pages

\* A loop that goes on for as long as the cap is not reached.
WhileGuardNoPageLimit(pages, count) == count < MAX_VALID_PER_KEYWORD

\* Line 131: pages_processed < max_pages and channels_added_for_kw < cap
WhileGuard(pages, count) ==
    pages < max_pages /\ count < MAX_VALID_PER_KEYWORD

\* A resume that forgets the saved cursor.
ResumeTokenFromStart(cp, kw) == NoToken

\* Line 126
ResumeToken(cp, kw) == SavedPosition(cp, kw)

\* Line 127
ResumeCount(cp, kw) == SavedCount(cp, kw)

\* Lines 125-129: process_keyword is entered for kw.
EnterProcessKeyword(kw) ==
    /\ keyword' = kw
    /\ next_page_token' = ResumeToken(checkpoint, kw)
    /\ channels_added_for_kw' = ResumeCount(checkpoint, kw)
    /\ pages_processed' = 0
    /\ ended_by' = ""
    /\ searches' = 0
    /\ pc' = "while"

\* An orchestrator that also skips a keyword whose saved cursor is null.
FullyProcessedOrExhausted(cp, kw) ==
    SavedCount(cp, kw) >= MAX_VALID_PER_KEYWORD \/ cp.positions[kw] = NoToken

\* Line 251
FullyProcessed(cp, kw) == SavedCount(cp, kw) >= MAX_VALID_PER_KEYWORD

\* Lines 246-259 and 267: the head of the for loop over params['keywords'].
\* The list is exhausted or the stop flag is set: the final summary is logged
\* and run_scraper returns. The keyword is at its cap: skipped. Otherwise
\* process_keyword is called.
KeywordLoop ==
    /\ pc = "for"
    /\ IF kwi > Len(keywords) \/ stop
       THEN /\ EndRun("done")
            /\ UNCHANGED <<kwi, kwVars>>
       ELSE IF FullyProcessed(checkpoint, keywords[kwi])
       THEN /\ kwi' = kwi + 1
            /\ UNCHANGED <<pc, result, log, kwVars, pageVars>>
       ELSE /\ EnterProcessKeyword(keywords[kwi])
            /\ UNCHANGED <<kwi, result, log, pageVars>>
    /\ UNCHANGED <<persistVars, stop, existing_channels, all_values, checkpoint,
                   loaded, total_added, entry, existing_header, first_token,
                   app_settings, remote>>
    /\ UNCHANGED rotVars

\* process_keyword called directly (line 123) for keyword kw, with the
\* worksheet, DedupSet and checkpoint of RunSeed.
DirectCall(kw) ==
    /\ pc = "direct"
    /\ EnterProcessKeyword(kw)
    /\ UNCHANGED <<persistVars, result, stop, existing_channels, runVars,
                   pageVars, first_token, ioVars>>
    /\ UNCHANGED rotVars

\* ------------------------------------------------------ process_keyword

\* Lines 131-134: the head of the while loop, and the stop flag polled at
\* the page boundary.
WhileHead ==
    /\ pc = "while"
    /\ pc' = IF WhileGuard(pages_processed, channels_added_for_kw) /\ ~stop
             THEN "search" ELSE "return"
    /\ ended_by' = IF ~WhileGuard(pages_processed, channels_added_for_kw) THEN "guard"
                   ELSE IF stop THEN "stop" ELSE ""
    /\ UNCHANGED <<persistVars, result, stop, existing_channels, runVars, keyword,
                   next_page_token, channels_added_for_kw, pages_processed, searches,
                   pageVars, first_token, ioVars>>
    /\ UNCHANGED rotVars

\* What a search request can answer: any set of channels, any next page
\* token or none.
SearchResponses ==
    [items : SUBSET Channels, nextPageToken : Tokens \cup {NoToken}]

\* Lines 136-146: the search request of the page, sent with
\* pageToken = next_page_token. api_request returns a response or raises; no
\* channel ids ends the keyword.
Search(r) ==
    /\ pc = "search"
    /\ first_token' = IF first_token[keyword] = NotSearched
                      THEN [first_token EXCEPT ![keyword] = next_page_token]
                      ELSE first_token
    /\ remote' = [remote EXCEPT !.api = TRUE]
    /\ search_result' = [nextPageToken |-> r.nextPageToken]
    /\ channel_ids' = r.items
    /\ pc' = IF r.items = {} THEN "return" ELSE "details"
    /\ ended_by' = IF r.items = {} THEN "nohits" ELSE ""
    /\ searches' = searches + 1
    /\ UNCHANGED <<candidate_channels, futures, rows_to_append>>
    /\ UNCHANGED <<persistVars, result, stop, existing_channels, runVars, keyword,
                   next_page_token, channels_added_for_kw, pages_processed,
                   app_settings, log>>
    /\ UNCHANGED rotVars

\* api_request raises in the search request (line 136), the detail request
\* (line 148) or, through future.result() (line 203), in a worker's request:
\* the exception leaves process_keyword and run_scraper.
SearchFails ==
    /\ pc = "search"
    /\ first_token' = IF first_token[keyword] = NotSearched
                      THEN [first_token EXCEPT ![keyword] = next_page_token]
                      ELSE first_token
    /\ remote' = [remote EXCEPT !.api = TRUE]
    /\ searches' = searches + 1
    /\ EndRun("ApiError")
    /\ UNCHANGED <<persistVars, stop, existing_channels, runVars, keyword,
                   next_page_token, channels_added_for_kw, pages_processed, ended_by,
                   app_settings>>
    /\ UNCHANGED rotVars

\* Lines 183-193: after the filter loop, the pool gets one task per
\* candidate, if there is any.
AfterFilter(cands) == IF cands = {} THEN "append" ELSE "pool"

\* Lines 148-154: the detail request for the ids of the page returns; the
\* filter loop goes over its records, one per channel of the page (a channel
\* the response leaves out fares like a record without an id).
Details ==
    /\ pc = "details"
    /\ candidate_channels' = {}
    /\ futures' = {}
    /\ rows_to_append' = <<>>
    /\ pc' = "filter"
    /\ UNCHANGED <<search_result, channel_ids>>
    /\ UNCHANGED <<persistVars, result, stop, existing_channels, runVars, kwVars,
                   first_token, ioVars>>
    /\ UNCHANGED rotVars

DetailsFails ==
    /\ pc = "details"
    /\ EndRun("ApiError")
    /\ UNCHANGED <<persistVars, stop, existing_channels, runVars, kwVars, first_token,
                   app_settings, remote>>
    /\ UNCHANGED rotVars

\* config.ALLOWED_COUNTRIES (some of it)
ALLOWED_COUNTRIES == {"US", "CA", "GB", "AU"}

\* country.upper()
Upper(country) == IF country = "us" THEN "US" ELSE country

\* Lines 115-119; "" is a missing country.
is_country_allowed(country) ==
    IF ALLOWED_COUNTRIES = {} THEN TRUE
    ELSE country # "" /\ Upper(country) \in ALLOWED_COUNTRIES

\* Line 113: the unique matches of the pattern in the text; a description is
\* taken as the sequence of its matches.
extract_emails(matches) == {matches[i] : i \in 1..Len(matches)}

\* A detail record that passes every filter for channel c.
GoodRecord(c) ==
    [id |-> c, subscriberCount |-> min_subs, country |-> "US", description |-> <<1>>]

\* The detail records the API can return for channel c: one at each end of
\* the subscriber range with an allowed country in either case and an address
\* once or repeated, and one failing each filter: no id, a count below or
\* above the range, a missing or another country, no address.
DetailRecords(c) ==
    { GoodRecord(c),
      [GoodRecord(c) EXCEPT !.subscriberCount = max_subs, !.country = "us",
                            !.description = <<1, 1>>],
      [GoodRecord(c) EXCEPT !.id = NoId],
      [GoodRecord(c) EXCEPT !.subscriberCount = min_subs - 1],
      [GoodRecord(c) EXCEPT !.subscriberCount = max_subs + 1],
      [GoodRecord(c) EXCEPT !.country = ""],
      [GoodRecord(c) EXCEPT !.country = "FR"],
      [GoodRecord(c) EXCEPT !.description = <<>>] }

\* A dedup test that never finds the URL.
NeverKnown(url, known) == FALSE

\* Line 164: channel_url in existing_channels
AlreadyKnown(url, known) == url \in known

\* A filter that forgets the test of lines 174-176.
PassesFiltersNoEmail(rec, known) ==
    /\ rec.id # NoId
    /\ ~AlreadyKnown(ChannelUrl(rec.id), known)
    /\ min_subs <= rec.subscriberCount /\ rec.subscriberCount <= max_subs
    /\ is_country_allowed(rec.country)

\* Lines 158-176: the record survives every filter.
PassesFilters(rec, known) ==
    /\ rec.id # NoId
    /\ ~AlreadyKnown(ChannelUrl(rec.id), known)
    /\ min_subs <= rec.subscriberCount /\ rec.subscriberCount <= max_subs
    /\ is_country_allowed(rec.country)
    /\ extract_emails(rec.description) # {}

\* The least element of a set of channel ids.
Least(ids) == CHOOSE c \in ids : \A x \in ids : c <= x

\* Lines 156-181: one iteration of the filter loop, on the record of the
\* next channel of the response. A candidate (lines 178-181) is kept as the
\* record it is built from: its subs, emails and url are functions of it.
FilterRecord(rec) ==
    /\ pc = "filter"
    /\ channel_ids # {}
    /\ rec \in DetailRecords(Least(channel_ids))
    /\ LET c == Least(channel_ids)
           cands == IF PassesFilters(rec, existing_channels)
                    THEN candidate_channels \cup {rec} ELSE candidate_channels
       IN  /\ channel_ids' = channel_ids \ {c}
           /\ candidate_channels' = cands
           /\ IF channel_ids \ {c} = {}
              THEN /\ pc' = AfterFilter(cands)
                   /\ futures' = {cand.id : cand \in cands}
              ELSE /\ pc' = "filter"
                   /\ futures' = {}
    /\ UNCHANGED <<search_result, rows_to_append>>
    /\ UNCHANGED <<persistVars, result, stop, existing_channels, runVars, kwVars,
                   first_token, ioVars>>
    /\ UNCHANGED rotVars

\* id_to_candidate[cid] (line 185)
id_to_candidate(cands, cid) == CHOOSE cand \in cands : cand.id = cid

\* A cap test that never stops the loop.
CapNeverReached(count) == FALSE

\* Line 211: channels_added_for_kw >= config.MAX_VALID_PER_KEYWORD
CapReached(count) == count >= MAX_VALID_PER_KEYWORD

\* Lines 195-212: as_completed yields the future of candidate c (any of
\* those not yet yielded). The stop flag set: break. Otherwise its row is
\* built, its URL joins the DedupSet, and the loop breaks at the cap.
PoolResult(c) ==
    /\ pc = "pool"
    /\ c \in futures
    /\ IF stop
       THEN /\ pc' = "append"
            /\ UNCHANGED <<futures, rows_to_append, existing_channels,
                           channels_added_for_kw>>
       ELSE /\ rows_to_append' =
                  Append(rows_to_append,
                         Row(c, extract_emails(id_to_candidate(candidate_channels, c).description),
                             keyword))
            /\ existing_channels' = existing_channels \cup {ChannelUrl(c)}
            /\ channels_added_for_kw' = channels_added_for_kw + 1
            /\ futures' = futures \ {c}
            /\ pc' = IF CapReached(channels_added_for_kw + 1) \/ futures \ {c} = {}
                     THEN "append" ELSE "pool"
    /\ UNCHANGED <<search_result, channel_ids, candidate_channels>>
    /\ UNCHANGED <<persistVars, result, stop, runVars, keyword, next_page_token,
                   pages_processed, ended_by, searches, first_token, ioVars>>
    /\ UNCHANGED rotVars

\* Line 203: future.result() raises what the worker's api_request raised.
PoolFails(c) ==
    /\ pc = "pool"
    /\ c \in futures
    /\ ~stop
    /\ EndRun("ApiError")
    /\ UNCHANGED <<persistVars, stop, existing_channels, runVars, kwVars, first_token,
                   app_settings, remote>>
    /\ UNCHANGED rotVars

\* Lines 214-215: the rows of the page are appended to the sheet in one
\* batch. (rows_to_append is emptied here rather than at line 183 of the
\* next page, and the candidates of the page are dropped: nothing reads
\* them after the with block of line 187. futures keeps the candidates whose
\* future the loop of line 195 never yielded.)
AppendRows ==
    /\ pc = "append"
    /\ sheet' = sheet \o rows_to_append
    /\ rows_to_append' = <<>>
    /\ candidate_channels' = {}
    /\ pc' = "advance"
    /\ UNCHANGED <<search_result, channel_ids, futures>>
    /\ UNCHANGED <<file, last_saved, result, stop, existing_channels, runVars,
                   kwVars, first_token, ioVars>>
    /\ UNCHANGED rotVars

\* Lines 218-219: the checkpoint with the keyword's cursor and count set.
Advanced(cp, kw, token, count) ==
    [cp EXCEPT !.positions[kw] = token, !.keywords_done[kw] = count]

\* Lines 217-219 and line 106 of save_checkpoint: the checkpoint in memory
\* is advanced and the file opened with mode "w", which empties it.
SaveOpen ==
    /\ pc = "advance"
    /\ next_page_token' = search_result.nextPageToken
    /\ checkpoint' = Advanced(checkpoint, keyword, search_result.nextPageToken,
                              channels_added_for_kw)
    /\ file' = TruncatedFile
    /\ pc' = "dump"
    /\ UNCHANGED <<sheet, last_saved, result, stop, existing_channels, all_values,
                   loaded, kwi, total_added, entry, existing_header, keyword,
                   channels_added_for_kw, pages_processed, ended_by, searches,
                   pageVars, first_token, ioVars>>
    /\ UNCHANGED rotVars

\* Line 107 (json.dump and the close of the file), then lines 222-227: the
\* keyword ends without a next page token, otherwise the next page.
SaveDump ==
    /\ pc = "dump"
    /\ file' = WrittenFile(checkpoint)
    /\ last_saved' = WrittenFile(checkpoint)
    /\ IF next_page_token = NoToken
       THEN pc' = "return" /\ ended_by' = "end" /\ UNCHANGED pages_processed
       ELSE pc' = "while" /\ pages_processed' = pages_processed + 1
                          /\ UNCHANGED ended_by
    /\ UNCHANGED <<sheet, result, stop, existing_channels, runVars, keyword,
                   next_page_token, channels_added_for_kw, searches, pageVars,
                   first_token, ioVars>>
    /\ UNCHANGED rotVars

\* process_keyword returns (it has no return statement: None). A direct
\* caller gets None; run_scraper, lines 259-262, logs and then adds None to
\* total_added, which raises TypeError.
Return ==
    /\ pc = "return"
    /\ EndRun(IF entry = "process_keyword" THEN "returned" ELSE "TypeError")
    /\ UNCHANGED <<persistVars, stop, existing_channels, runVars, kwVars, first_token,
                   app_settings, remote>>
    /\ UNCHANGED rotVars

\* gui.py ScraperWorker.stop: _is_running = False, at any time of a run.
Stop ==
    /\ pc # "idle"
    /\ ~stop
    /\ stop' = TRUE
    /\ UNCHANGED <<persistVars, pc, result, existing_channels, runVars, kwVars,
                   pageVars, first_token, ioVars>>
    /\ UNCHANGED rotVars

\* The process dies at any point of a run: only the sheet and the file
\* remain.
Crash ==
    /\ pc # "idle"
    /\ EndRun("crashed")
    /\ ResetRun /\ ResetKeyword
    /\ existing_header' = <<>>
    /\ UNCHANGED <<persistVars, stop, entry, app_settings, remote>>
    /\ UNCHANGED rotVars

Next ==
    \/ \E e \in {"run_scraper", "process_keyword"} : \E s \in Settings : RunStart(e, s)
    \/ RunSeed
    \/ KeywordLoop
    \/ \E kw \in Keywords : DirectCall(kw)
    \/ WhileHead
    \/ \E r \in SearchResponses : Search(r)
    \/ SearchFails
    \/ Details
    \/ DetailsFails
    \/ \E c \in Channels : \E rec \in DetailRecords(c) : FilterRecord(rec)
    \/ \E c \in Channels : PoolResult(c)
    \/ \E c \in Channels : PoolFails(c)
    \/ AppendRows
    \/ SaveOpen
    \/ SaveDump
    \/ Return
    \/ Stop
    \/ Crash

\* A first run finds any of InitSheets and any of InitFiles.
Init == ScrInit /\ RotQuiet

Spec == Init /\ [][Next]_vars

\* ------------------------------------------ runs, crashes and the cap
\* run_scraper started again and again on a sheet and a checkpoint file that
\* only the program touches, against an API that knows one channel more than
\* the cap and whose detail records pass every filter; the process can die
\* between the batch append of line 215 and the save of line 220.

CapChannels == 1..(MAX_VALID_PER_KEYWORD + 1)

CapSearchResponses ==
    [items : SUBSET CapChannels \ {{}}, nextPageToken : Tokens \cup {NoToken}]

\* The process dies after worksheet.append_rows (line 215) and before
\* save_checkpoint (line 220).
CrashAfterAppend == pc = "advance" /\ Crash

NextCap ==
    \/ RunStart("run_scraper", ValidSettings)
    \/ RunSeed
    \/ KeywordLoop
    \/ WhileHead
    \/ \E r \in CapSearchResponses : Search(r)
    \/ Details
    \/ \E c \in CapChannels : FilterRecord(GoodRecord(c))
    \/ \E c \in CapChannels : PoolResult(c)
    \/ AppendRows
    \/ SaveOpen
    \/ SaveDump
    \/ Return
    \/ CrashAfterAppend

\* A first run on a sheet with its header alone and no checkpoint file.
InitCap == ScrQuiet /\ RotQuiet

SpecCap == InitCap /\ [][NextCap]_vars

\* ------------------------------------ save_checkpoint then load_checkpoint

\* The lists of URLs a checkpoint can hold under "processed_channels".
UrlLists ==
    UNION {[1..n -> {ChannelUrl(c) : c \in Channels}] : n \in 0..MaxChannels}

\* The well-formed checkpoints: positions maps keywords to a cursor or None,
\* keywords_done maps keywords to a count, each for any subset of the
\* keywords, with or without the list of URLs.
WellFormedCheckpoints ==
    [positions : [Keywords -> Tokens \cup {NoToken, Missing}],
     keywords_done : [Keywords -> (0..MAX_VALID_PER_KEYWORD) \cup {Missing}],
     processed_channels : {NoSnapshot} \cup UrlLists]

\* Line 106: open(config.CHECKPOINT_FILE, "w")
CodecOpen ==
    /\ pc = "save"
    /\ file' = TruncatedFile
    /\ pc' = "save_dump"
    /\ UNCHANGED <<sheet, last_saved, result, stop, existing_channels, runVars, kwVars,
                   pageVars, first_token, ioVars>>
    /\ UNCHANGED rotVars

\* Line 107: json.dump(checkpoint_data, f, indent=4), and the file closed.
CodecDump ==
    /\ pc = "save_dump"
    /\ file' = WrittenFile(checkpoint)
    /\ last_saved' = WrittenFile(checkpoint)
    /\ pc' = "load"
    /\ UNCHANGED <<sheet, result, stop, existing_channels, runVars, kwVars,
                   pageVars, first_token, ioVars>>
    /\ UNCHANGED rotVars

\* Lines 94-102: load_checkpoint() of the file just written.
CodecLoad ==
    /\ pc = "load"
    /\ ~LoadRaises(file)
    /\ loaded' = load_checkpoint(file)
    /\ log' = IF LoadWarns(file) THEN [log EXCEPT !.warnings = @ + 1] ELSE log
    /\ pc' = "loaded"
    /\ UNCHANGED <<persistVars, result, stop, existing_channels, all_values, checkpoint,
                   kwi, total_added, entry, existing_header, kwVars, pageVars,
                   first_token, app_settings, remote>>
    /\ UNCHANGED rotVars

CodecNext == CodecOpen \/ CodecDump \/ CodecLoad

\* Any well-formed checkpoint in memory, about to be saved.
InitCodec ==
    /\ checkpoint \in WellFormedCheckpoints
    /\ pc = "save"
    /\ sheet = <<Header>>
    /\ file = AbsentFile
    /\ last_saved = AbsentFile
    /\ ScrIdle
    /\ RotQuiet

SpecCodec == InitCodec /\ [][CodecNext]_vars

\* ------------------------------------------------ YouTubeClientManager

Pools == {[i \in 1..n |-> i] : n \in 0..MaxKeys}

RotInit ==
    /\ api_keys \in Pools
    /\ mgr = "unbuilt"
    /\ current_key_index = Unset
    /\ key_lock = NoThread
    /\ tpc = [t \in Threads |-> "idle"]
    /\ attempt = [t \in Threads |-> 0]
    /\ yt = [t \in Threads |-> 0]
    /\ last_exc = [t \in Threads |-> NoExc]
    /\ calls = [t \in Threads |-> <<>>]
    /\ ret = [t \in Threads |-> NoRet]
    /\ grants = <<>>

\* __init__: an empty pool raises ValueError, otherwise the cursor starts at 0.
PoolAccepted(keys) == keys # <<>>

Construct ==
    /\ mgr = "unbuilt"
    /\ IF PoolAccepted(api_keys)
       THEN mgr' = "ready" /\ current_key_index' = 0
       ELSE mgr' = "ValueError" /\ UNCHANGED current_key_index
    /\ UNCHANGED <<api_keys, key_lock, tpc, attempt, yt, last_exc, calls, ret, grants>>
    /\ UNCHANGED scrVars

\* A get_client that enters its critical section without waiting for the lock.
LockIgnored(t) == TRUE

\* `with self.key_lock:` is entered only while no thread holds the lock.
LockAvailable(t) == key_lock = NoThread

\* An advance of the cursor that forgets to wrap around.
AdvanceNoWrap(i, n) == i + 1

\* (self.current_key_index + 1) % len(self.api_keys)
AdvanceIndex(i, n) == (i + 1) % n

\* The last n elements of s.
LastN(s, n) == IF Len(s) <= n THEN s ELSE SubSeq(s, Len(s) - n + 1, Len(s))

\* get_client, lines 36-37: enter the with block (acquire key_lock) and read
\* key = self.api_keys[self.current_key_index].
GetClientRead(t) ==
    /\ tpc[t] = "get_client"
    /\ LockAvailable(t)
    /\ key_lock' = t
    /\ yt' = [yt EXCEPT ![t] = api_keys[current_key_index + 1]]
    /\ grants' = LastN(Append(grants, [thread |-> t, index |-> current_key_index]),
                       Len(api_keys))
    /\ tpc' = [tpc EXCEPT ![t] = "advance"]
    /\ UNCHANGED <<api_keys, mgr, current_key_index, attempt, last_exc, calls, ret>>
    /\ UNCHANGED scrVars

\* get_client, line 38 and the end of the with block: advance the cursor,
\* release the lock; line 39 builds the client for the key read.
GetClientAdvance(t) ==
    /\ tpc[t] = "advance"
    /\ current_key_index' = AdvanceIndex(current_key_index, Len(api_keys))
    /\ key_lock' = IF key_lock = t THEN NoThread ELSE key_lock
    /\ tpc' = [tpc EXCEPT ![t] = "func"]
    /\ UNCHANGED <<api_keys, mgr, attempt, yt, last_exc, calls, ret, grants>>
    /\ UNCHANGED scrVars

\* ------------------------------------------------------- api_request

\* A status test that takes every HTTP error for a quota error.
IsAnyErrorStatus(status) == status >= 400

\* status in (403, 429)
IsQuotaStatus(status) == status \in {HTTP_FORBIDDEN, HTTP_TOO_MANY}

\* range(len(self.api_keys)): the number of iterations of the for loop.
MaxAttempts(keys) == Len(keys)

\* A last_exc that keeps the first error instead of the latest.
RecordFirstExc(old, new) == IF old = NoExc THEN new ELSE old

\* last_exc = he / last_exc = e
RecordExc(old, new) == new

\* raise last_exc or Exception("API request failed ...")
FinalExc(exc) ==
    IF exc = NoExc THEN [kind |-> "Exception", status |-> 0, attempt |-> 0] ELSE exc

\* Line 44: the head of the for loop, reached at the start of the request
\* and after each continue: one more iteration (get_client next), or line 61.
ForHead(t, n, exc) ==
    IF n < MaxAttempts(api_keys)
    THEN /\ attempt' = [attempt EXCEPT ![t] = n + 1]
         /\ tpc' = [tpc EXCEPT ![t] = "get_client"]
         /\ ret' = [ret EXCEPT ![t] = NoRet]
    ELSE /\ attempt' = [attempt EXCEPT ![t] = n]
         /\ tpc' = [tpc EXCEPT ![t] = "raised"]
         /\ ret' = [ret EXCEPT ![t] = [kind |-> "raise", attempt |-> n,
                                       key |-> yt[t], exc |-> FinalExc(exc)]]

\* The failing invocations among the requests in flight.
RECURSIVE FailuresIn(_)
FailuresIn(s) ==
    IF s = <<>> THEN 0
    ELSE (IF s[1].out.kind = "ok" THEN 0 ELSE 1) + FailuresIn(Tail(s))

RECURSIVE SumFailures(_)
SumFailures(ts) ==
    IF ts = {} THEN 0
    ELSE LET t == CHOOSE x \in ts : TRUE
         IN  FailuresIn(calls[t]) + SumFailures(ts \ {t})

Faults == SumFailures(Threads)

\* Lines 46-60: func(yt) runs with the client of this iteration and returns
\* (line 47), raises a quota-class HttpError (lines 50-54: continue), another
\* HttpError (line 55: raise) or any other exception (lines 56-60: continue).
ApiRequestFunc(t, o) ==
    /\ tpc[t] = "func"
    /\ o.kind # "ok" => Faults < MaxFaults
    /\ calls' = [calls EXCEPT ![t] = Append(@, [key |-> yt[t], out |-> o])]
    /\ LET exc == [kind |-> o.kind, status |-> o.status, attempt |-> attempt[t]]
       IN  CASE o.kind = "ok" ->
                  /\ ret' = [ret EXCEPT ![t] = [kind |-> "return", attempt |-> attempt[t],
                                                key |-> yt[t], exc |-> NoExc]]
                  /\ tpc' = [tpc EXCEPT ![t] = "returned"]
                  /\ UNCHANGED <<last_exc, attempt>>
             [] o.kind = "HttpError" /\ ~IsQuotaStatus(o.status) ->
                  /\ ret' = [ret EXCEPT ![t] = [kind |-> "raise", attempt |-> attempt[t],
                                                key |-> yt[t], exc |-> exc]]
                  /\ tpc' = [tpc EXCEPT ![t] = "raised"]
                  /\ UNCHANGED <<last_exc, attempt>>
             [] OTHER ->
                  /\ last_exc' = [last_exc EXCEPT ![t] = RecordExc(@, exc)]
                  /\ ForHead(t, attempt[t], RecordExc(last_exc[t], exc))
    /\ UNCHANGED <<api_keys, mgr, current_key_index, key_lock, yt, grants>>
    /\ UNCHANGED scrVars

\* The coordinating thread calls api_request (the search request of line 136,
\* the detail request of line 148) while no worker-pool task is running.
MainRequest ==
    /\ mgr = "ready"
    /\ tpc[MAIN] \in {"idle", "returned"}
    /\ \A w \in Workers : tpc[w] = "idle"
    /\ yt' = [yt EXCEPT ![MAIN] = 0]
    /\ last_exc' = [last_exc EXCEPT ![MAIN] = NoExc]
    /\ calls' = [calls EXCEPT ![MAIN] = <<>>]
    /\ ForHead(MAIN, 0, NoExc)
    /\ UNCHANGED <<api_keys, mgr, current_key_index, key_lock, grants>>
    /\ UNCHANGED scrVars

\* Lines 187-193: the coordinating thread submits one api_request per
\* candidate to the pool (tasks 1..n) and waits for the results.
PoolSubmit(n) ==
    /\ mgr = "ready"
    /\ tpc[MAIN] = "returned"
    /\ \A w \in Workers : tpc[w] = "idle"
    /\ attempt' = [t \in Threads |-> IF t \in 1..n THEN 1 ELSE 0]
    /\ yt' = [t \in Threads |-> 0]
    /\ last_exc' = [t \in Threads |-> NoExc]
    /\ calls' = [t \in Threads |-> <<>>]
    /\ ret' = [t \in Threads |-> NoRet]
    /\ tpc' = [t \in Threads |-> IF t \in 1..n THEN "get_client"
                                  ELSE IF t = MAIN THEN "pool" ELSE "idle"]
    /\ UNCHANGED <<api_keys, mgr, current_key_index, key_lock, grants>>
    /\ UNCHANGED scrVars

\* The end of the with block of line 187: the pool is shut down once every
\* task has returned or raised; the coordinating thread goes on.
PoolJoin ==
    /\ tpc[MAIN] = "pool"
    /\ \A w \in Workers : tpc[w] \in {"idle", "returned", "raised"}
    /\ tpc' = [t \in Threads |-> "idle"]
    /\ attempt' = [t \in Threads |-> 0]
    /\ yt' = [t \in Threads |-> 0]
    /\ last_exc' = [t \in Threads |-> NoExc]
    /\ calls' = [t \in Threads |-> <<>>]
    /\ ret' = [t \in Threads |-> NoRet]
    /\ UNCHANGED <<api_keys, mgr, current_key_index, key_lock, grants>>
    /\ UNCHANGED scrVars

RotNext ==
    \/ Construct
    \/ MainRequest
    \/ \E n \in 1..MaxWorkers : PoolSubmit(n)
    \/ PoolJoin
    \/ \E t \in Threads : GetClientRead(t)
    \/ \E t \in Threads : GetClientAdvance(t)
    \/ \E t \in Threads : \E o \in Outcomes : ApiRequestFunc(t, o)

\* A pool of 0..MaxKeys keys, no manager built yet; the scraper's state is
\* left aside.
InitRotator == RotInit /\ ScrQuiet

SpecRotator == InitRotator /\ [][RotNext]_vars

\* ------------------------------------------------ claims on the scraper

\* The indices in the sheet of the rows this run has appended.
AppendedRows == (Len(all_values) + 1)..Len(sheet)

\* C1: within a run no channel URL is appended to the sheet twice, and no URL
\* the sheet held at the start of the run is appended again: the URL of every
\* row appended by the run differs from the URL of every data row before it.
C1_NoDuplicateAppend ==
    all_values # <<>> =>
        \A i \in AppendedRows : \A j \in 2..(i - 1) : sheet[j].url # sheet[i].url

\* C1 witness: the sheet held a data row at the start, the run has appended
\* a channel, and a later page of the keyword returns that channel again.
C1_Witness ==
    /\ pc = "filter"
    /\ Len(all_values) >= 2
    /\ pages_processed >= 1
    /\ \E c \in channel_ids : \E i \in AppendedRows : sheet[i].url = ChannelUrl(c)

\* C8: a keyword K whose loaded keywords_done[K] is at or above the cap is
\* not searched in the run, gets no row, and its positions[K] and
\* keywords_done[K] stay as loaded, in memory and in the file.
C8_CappedKeywordUntouched ==
    \A K \in Keywords :
        SavedCount(loaded, K) >= MAX_VALID_PER_KEYWORD =>
            /\ first_token[K] = NotSearched
            /\ \A i \in AppendedRows : sheet[i].keyword # K
            /\ \A i \in 1..Len(rows_to_append) : rows_to_append[i].keyword # K
            /\ checkpoint.positions[K] = loaded.positions[K]
            /\ checkpoint.keywords_done[K] = loaded.keywords_done[K]
            /\ file.state = "ok" =>
                  /\ json_load(file.data).positions[K] = loaded.positions[K]
                  /\ json_load(file.data).keywords_done[K] = loaded.keywords_done[K]

\* C8 witness: process_keyword, called directly for a keyword at its cap, has
\* returned.
C8_Witness ==
    /\ entry = "process_keyword"
    /\ result = "returned"
    /\ keyword \in Keywords
    /\ SavedCount(loaded, keyword) >= MAX_VALID_PER_KEYWORD

\* The same through run_scraper: the for loop has gone past a keyword at its
\* cap.
C8_WitnessSkipped ==
    /\ entry = "run_scraper"
    /\ pc # "idle"
    /\ \E i \in 1..(kwi - 1) : SavedCount(loaded, keywords[i]) >= MAX_VALID_PER_KEYWORD

\* The number of rows this run has appended for keyword K.
AppendedFor(K) == Cardinality({i \in AppendedRows : sheet[i].keyword = K})

\* C9: for a keyword K loaded in progress (a saved cursor, a count below the
\* cap) the first search request of the run carries positions[K] as its page
\* token, and the running count is keywords_done[K] plus the rows the run
\* has added for K.
C9_ResumeFromSavedCursor ==
    \A K \in Keywords :
        (loaded.positions[K] \in Tokens /\ SavedCount(loaded, K) < MAX_VALID_PER_KEYWORD)
        => /\ first_token[K] # NotSearched => first_token[K] = loaded.positions[K]
           /\ (keyword = K /\ pc # "idle")
                 => channels_added_for_kw =
                        SavedCount(loaded, K) + AppendedFor(K) + Len(rows_to_append)

\* C9 witness: a keyword loaded with a saved cursor and a count of at least 1
\* has been searched with that cursor.
C9_Witness ==
    \E K \in Keywords :
        /\ loaded.positions[K] \in Tokens
        /\ SavedCount(loaded, K) >= 1
        /\ SavedCount(loaded, K) < MAX_VALID_PER_KEYWORD
        /\ keyword = K
        /\ first_token[K] = loaded.positions[K]
        /\ pc = "details"

\* C10 (as claimed): after a crash the checkpoint file holds a complete
\* checkpoint, the one saved before or the new one; a checkpoint once saved
\* is not lost to a crash.
C10_CrashKeepsSavedCheckpoint ==
    (result = "crashed" /\ last_saved.state = "ok") => file.state = "ok"

\* C11 (as claimed): load_checkpoint never fails its caller: an absent file
\* gives the empty checkpoint without a warning, a corrupt or unreadable file
\* gives the empty checkpoint with one warning logged.
C11_LoadNeverFails ==
    /\ result # "LoadError"
    /\ pc \in {"for", "direct"} =>
          /\ file.state = "absent" => (loaded = EmptyCheckpoint /\ log.warnings = 0)
          /\ file.state \in {"truncated", "corrupt", "unreadable"}
                => (loaded = EmptyCheckpoint /\ log.warnings = 1)

\* C12: for every well-formed checkpoint C, save_checkpoint(C) followed by
\* load_checkpoint() returns a value equal to C.
C12_RoundTrip == pc = "loaded" => loaded = checkpoint

\* C12 witness: a checkpoint with a None cursor, a string cursor, a count and
\* a list of two URLs has been saved and loaded.
C12_Witness ==
    /\ pc = "loaded"
    /\ \E k \in Keywords : checkpoint.positions[k] = NoToken
    /\ \E k \in Keywords : checkpoint.positions[k] \in Tokens
    /\ \E k \in Keywords : checkpoint.keywords_done[k] >= 1
    /\ checkpoint.processed_channels # NoSnapshot
    /\ Len(checkpoint.processed_channels) = 2

\* C13 (as claimed): when process_keyword has left its loop on the stop
\* signal, the run of run_scraper ends without an error raised to its caller,
\* and the checkpoint file equals the positions and keywords_done in memory.
C13_StopEndsWithoutError ==
    (entry = "run_scraper" /\ ended_by = "stop" /\ pc = "idle")
    => /\ result = "done"
       /\ log.errors = 0
       /\ load_checkpoint(file).positions = checkpoint.positions
       /\ load_checkpoint(file).keywords_done = checkpoint.keywords_done

\* C14 (as claimed): a run of run_scraper that has ended without an API,
\* sink or configuration failure (and was not killed) has logged the final
\* summary, and its total is the number of rows the run appended.
C14_FinalSummaryLogged ==
    (entry = "run_scraper" /\ pc = "idle"
        /\ result \notin {"none", "crashed", "ApiError", "LoadError", "SinkError",
                          "ConfigError"})
    => log.summary = Len(sheet) - Len(all_values)

\* C15 (as claimed): when the search of a keyword's first page (no page
\* token) has returned no hits, no row is added for the keyword and the
\* checkpoint holds positions[keyword] = None, the exhausted cursor.
C15_ZeroHitsRecorded ==
    (ended_by = "nohits" /\ pages_processed = 0 /\ first_token[keyword] = NoToken)
    => /\ AppendedFor(keyword) = 0
       /\ rows_to_append = <<>>
       /\ checkpoint.positions[keyword] = NoToken

\* C16: every row built for the sheet belongs to a candidate whose detail
\* record has a subscriber count in [min_subs, max_subs], an allowed country,
\* at least one email (the row's emails) and a URL that was not in the
\* DedupSet when the page was filtered; no row the run has appended has an
\* empty emails cell.
C16_AppendedPassedFilters ==
    /\ \A i \in 1..Len(rows_to_append) :
          LET row == rows_to_append[i]
              built == {rows_to_append[j].url : j \in 1..Len(rows_to_append)}
          IN  /\ row.emails # {}
              /\ row.url \notin (existing_channels \ built)
              /\ \A j \in 1..Len(rows_to_append) : j # i => rows_to_append[j].url # row.url
              /\ \E cand \in candidate_channels :
                    /\ cand.id # NoId /\ row.url = ChannelUrl(cand.id)
                    /\ row.emails = extract_emails(cand.description)
                    /\ min_subs <= cand.subscriberCount
                    /\ cand.subscriberCount <= max_subs
                    /\ cand.country # ""
                    /\ Upper(cand.country) \in ALLOWED_COUNTRIES
    /\ all_values # <<>> => \A i \in AppendedRows : sheet[i].emails # {}

\* C16 witness: on a sheet that held a row, a row has been built from a
\* record at the upper end of the range with a lower-case country.
C16_Witness ==
    /\ pc = "append"
    /\ Len(all_values) >= 2
    /\ Len(rows_to_append) = 1
    /\ \E cand \in candidate_channels :
          /\ rows_to_append[1].url = ChannelUrl(cand.id)
          /\ cand.subscriberCount = max_subs
          /\ cand.country = "us"

\* The settings identify the keys and the sheet completely.
CompleteSettings(s) ==
    s.youtube_api_keys /\ s.sheet_id /\ s.sheet_name /\ s.service_account_file

\* C17 (as claimed): a run started with no API keys or with incomplete sheet
\* identification has ended at once: no call to the sink or to the search
\* API, the error reported exactly once.
C17_ConfigErrorAbortsEarly ==
    (entry = "run_scraper" /\ result # "none" /\ ~CompleteSettings(app_settings))
    => /\ pc = "idle"
       /\ result = "ConfigError"
       /\ remote = NoCalls
       /\ log.errors = 1

\* C18 (as claimed): when the next search of a keyword is issued, the file
\* holds the previous page's next cursor and the running count; and at any
\* point of a keyword the file holds the checkpoint of the last completed
\* page or of the page before it, so that a crash loses at most one page.
C18_PageCheckpointSaved ==
    /\ (pc = "search" /\ pages_processed >= 1)
          => /\ file = WrittenFile(checkpoint)
             /\ checkpoint.positions[keyword] = next_page_token
             /\ checkpoint.keywords_done[keyword] = channels_added_for_kw
    /\ (keyword # 0 /\ pc # "idle")
          => load_checkpoint(file) \in {checkpoint, load_checkpoint(last_saved)}

\* C19 (as claimed): once process_keyword has returned to run_scraper, the
\* rows it added are in the session total and the checkpoint file holds a
\* snapshot of the whole DedupSet.
C19_SnapshotAfterKeyword ==
    (entry = "run_scraper" /\ ended_by # "" /\ pc = "idle")
    => /\ total_added = Len(sheet) - Len(all_values)
       /\ file.state = "ok"
       /\ LET saved == load_checkpoint(file).processed_channels
          IN  /\ saved # NoSnapshot
              /\ {saved[i] : i \in 1..Len(saved)} = existing_channels

\* C20: for a keyword K loaded with a count at or below the cap, the running
\* count never exceeds the cap, the pool loop is not running once the count
\* is at the cap, and keywords_done[K] in memory and in the file is at most
\* the cap.
C20_CapNeverExceeded ==
    \A K \in Keywords :
        SavedCount(loaded, K) <= MAX_VALID_PER_KEYWORD
        => /\ keyword = K => channels_added_for_kw <= MAX_VALID_PER_KEYWORD
           /\ (keyword = K /\ pc = "pool") => channels_added_for_kw < MAX_VALID_PER_KEYWORD
           /\ SavedCount(checkpoint, K) <= MAX_VALID_PER_KEYWORD
           /\ SavedCount(load_checkpoint(file), K) <= MAX_VALID_PER_KEYWORD
           /\ \A i \in 1..Len(rows_to_append) :
                 rows_to_append[i].keyword = K
                 => SavedCount(loaded, K) + AppendedFor(K) + i <= MAX_VALID_PER_KEYWORD

\* C20 witness: the pool loop has stopped at the cap with a candidate left
\* whose row was not built.
C20_Witness ==
    /\ pc = "append"
    /\ ~stop
    /\ channels_added_for_kw = MAX_VALID_PER_KEYWORD
    /\ futures # {}
    /\ rows_to_append # <<>>

\* C21: one call of process_keyword issues at most max_pages search
\* requests (6 in the source) and then leaves its loop, whatever the API
\* returns and whatever the cap is: the count of the requests of the call
\* never passes max_pages, a request is only issued below it, and the loop
\* head reached after the last of them finds pages_processed at max_pages.
C21_SearchesBounded ==
    /\ searches <= max_pages
    /\ pc = "search" => searches < max_pages
    /\ (pc = "while" /\ searches >= max_pages) => pages_processed >= max_pages

\* C21 witness: a call has issued max_pages requests, each answered with a
\* next page token and none giving a row, and has left its loop.
C21_Witness ==
    /\ pc = "return"
    /\ ended_by = "guard"
    /\ searches = max_pages
    /\ channels_added_for_kw = 0
    /\ next_page_token # NoToken

\* The URLs of the data rows of the sheet.
SheetUrls == {sheet[i].url : i \in 2..Len(sheet)}

HeaderFound == existing_header # <<>> /\ existing_header[1] = Header

\* C23: from setup_worksheet on, and so at every append of a batch, the first
\* row of the sheet is the header. A sheet found with its header is seeded as
\* found. A sheet found without it is cleared to the header alone before the
\* DedupSet is seeded: the seeded values are the header alone, the DedupSet
\* starts empty and holds only URLs of rows the run built, so the rows found
\* before the repair are neither kept nor counted as emitted.
C23_HeaderBeforeRows ==
    /\ pc # "idle" => sheet # <<>> /\ sheet[1] = Header
    /\ all_values # <<>> => all_values[1] = Header /\ sheet[1] = Header
    /\ pc = "seed" =>
           /\ existing_channels = {}
           /\ sheet = IF HeaderFound THEN existing_header ELSE <<Header>>
    /\ (pc # "idle" /\ all_values # <<>>) =>
           IF HeaderFound
           THEN /\ all_values = existing_header
                /\ \A i \in 1..Len(all_values) : sheet[i] = all_values[i]
           ELSE /\ all_values = <<Header>>
                /\ existing_channels \subseteq
                       SheetUrls \cup {rows_to_append[i].url : i \in 1..Len(rows_to_append)}

\* C23 witness: the sheet was found with a data row as its first row; it was
\* repaired, and the channel of that row has been appended by the run.
C23_Witness ==
    /\ pc = "advance"
    /\ existing_header = <<Row(1, {1}, 1)>>
    /\ all_values = <<Header>>
    /\ Len(sheet) = 2
    /\ sheet[2].url = ChannelUrl(1)

\* C24: the DedupSet never shrinks during a run (no step of a run after the
\* seeding, but the death of the process, removes a URL from it), and at every
\* page boundary of a run that has not failed (the head of the while loop,
\* the head of the for loop, the return of process_keyword) it contains the
\* URL of every data row of the sheet.
C24_DedupSetCoversSheet ==
    /\ [](pc \in {"while", "for", "return"} => SheetUrls \subseteq existing_channels)
    /\ [][(pc \notin {"idle", "seed"} /\ result' # "crashed")
             => existing_channels \subseteq existing_channels']_vars

\* C24 witness: a page boundary of a run that found a data row in the sheet
\* and has appended another.
C24_Witness ==
    /\ pc = "while"
    /\ pages_processed >= 1
    /\ Len(all_values) >= 2
    /\ Len(sheet) > Len(all_values)
    /\ SheetUrls = existing_channels

\* C25: when the checkpoint cursor of the keyword has been advanced past a
\* page (lines 217-220), every candidate of the page that passed the filters
\* has been appended to the sheet, unless the cap was reached on the page: no
\* candidate of the page is left whose future the pool loop never yielded.
C25_NoCandidateDropped ==
    (pc \in {"dump", "while", "return"} /\ futures # {})
        => channels_added_for_kw >= MAX_VALID_PER_KEYWORD

\* The data rows of the sheet tagged with keyword K.
RowsFor(K) == {i \in 2..Len(sheet) : sheet[i].keyword = K}

\* C26: across runs separated by crashes and resumes, the checkpoint file
\* never deleted nor corrupted, the sheet never holds more rows tagged with a
\* keyword than the cap, even when the process died between the batch append
\* and the save of the checkpoint.
C26_CapAcrossRuns ==
    \A K \in Keywords : Cardinality(RowsFor(K)) <= MAX_VALID_PER_KEYWORD

\* The checkpoint loaded by the run holds a null cursor for K and a count
\* below the cap: the results of K were exhausted in an earlier run.
Exhausted(K) ==
    loaded.positions[K] = NoToken /\ SavedCount(loaded, K) < MAX_VALID_PER_KEYWORD

\* C27: a keyword K loaded with a null cursor and a count below the cap is
\* treated as a keyword never started: the for loop of run_scraper does not
\* skip it (it is not among the keywords the loop has passed, and when the
\* loop is at K, process_keyword is called for K), its first search request
\* carries no page token, and the rows the run appends for it are those the
\* DedupSet seeded from the sheet did not hold.
C27_ExhaustedSearchedAgain ==
    \A K \in Keywords :
        Exhausted(K) =>
            /\ first_token[K] \in {NotSearched, NoToken}
            /\ SavedPosition(loaded, K) = SavedPosition(EmptyCheckpoint, K)
            /\ entry = "run_scraper" =>
                   /\ \A i \in 1..(kwi - 1) : keywords[i] # K
                   /\ (pc \notin {"idle", "seed", "for"} /\ keywords[kwi] = K)
                          => keyword = K
            /\ \A i \in AppendedRows :
                   sheet[i].keyword = K =>
                       \A j \in 2..Len(all_values) : sheet[j].url # sheet[i].url

\* C27 witness: run_scraper has searched again, from the first page, a
\* keyword that an earlier run left exhausted with a row in the sheet, and it
\* has built a row for another channel.
C27_Witness ==
    /\ entry = "run_scraper"
    /\ pc = "append"
    /\ Exhausted(keyword)
    /\ SavedCount(loaded, keyword) >= 1
    /\ first_token[keyword] = NoToken
    /\ \E j \in 2..Len(all_values) : all_values[j].keyword = keyword
    /\ rows_to_append # <<>>

\* ------------------------------------------------ claims on the rotator

\* The keys of the invocations of one request are pairwise different.
DistinctKeys(h) == \A i, j \in 1..Len(h) : i # j => h[i].key # h[j].key

QuotaClass(o) == o.kind = "HttpError" /\ o.status \in {403, 429}

\* C2 (as claimed): every api_request, also one issued by a worker-pool
\* thread while others run, makes at most N attempts and uses each key of
\* the pool at most once.
C2_EachKeyAtMostOnce ==
    \A t \in Threads :
        /\ Len(calls[t]) <= Len(api_keys)
        /\ DistinctKeys(calls[t])

\* C3 (as claimed): the retry that follows a transient (non-HTTP) error uses
\* the same key as the failed attempt.
C3_TransientRetrySameKey ==
    \A t \in Threads :
        \A i \in 1..(Len(calls[t]) - 1) :
            calls[t][i].out.kind = "Exception" => calls[t][i + 1].key = calls[t][i].key

\* C4: with no concurrent callers (the coordinating thread's requests),
\* api_request returns the result of the first attempt that succeeds: after j
\* quota-class failures and a success it has made exactly j+1 attempts on j+1
\* different keys and returned that result; after N failures it raises the
\* error of the last attempt.
C4_FirstSuccessOrLastError ==
    LET h == calls[MAIN]
        n == Len(api_keys)
    IN  /\ tpc[MAIN] # "pool" => \A w \in Workers : tpc[w] = "idle"
        /\ \A j \in 0..(n - 1) :
              ( /\ Len(h) >= j + 1
                /\ \A i \in 1..j : QuotaClass(h[i].out)
                /\ h[j + 1].out.kind = "ok" )
              => /\ Len(h) = j + 1
                 /\ DistinctKeys(h)
                 /\ tpc[MAIN] = "returned"
                 /\ ret[MAIN] = [kind |-> "return", attempt |-> j + 1,
                                 key |-> h[j + 1].key, exc |-> NoExc]
        /\ ret[MAIN].kind = "return"
              => /\ h # <<>> /\ h[Len(h)].out.kind = "ok"
                 /\ \A i \in 1..(Len(h) - 1) : h[i].out.kind # "ok"
        /\ ( /\ n >= 1 /\ Len(h) = n
             /\ \A i \in 1..n : h[i].out.kind # "ok" )
              => /\ tpc[MAIN] = "raised"
                 /\ ret[MAIN].kind = "raise"
                 /\ ret[MAIN].exc = [kind |-> h[n].out.kind, status |-> h[n].out.status,
                                     attempt |-> n]

\* C4 witness: pool of 2 keys, the first call fails with 403, the second
\* succeeds on the other key.
C4_Witness ==
    /\ Len(api_keys) = 2
    /\ Len(calls[MAIN]) = 2
    /\ calls[MAIN][1].out.status = 403
    /\ calls[MAIN][1].key # calls[MAIN][2].key
    /\ ret[MAIN].kind = "return" /\ ret[MAIN].attempt = 2

\* C5: an HttpError whose status is neither 403 nor 429 ends the request at
\* once: it is the request's last invocation and the error raised.
C5_OtherHttpErrorPropagates ==
    \A t \in Threads :
        \A i \in 1..Len(calls[t]) :
            (calls[t][i].out.kind = "HttpError" /\ calls[t][i].out.status \notin {403, 429})
            => /\ i = Len(calls[t])
               /\ tpc[t] = "raised"
               /\ ret[t].kind = "raise"
               /\ ret[t].exc = [kind |-> "HttpError", status |-> calls[t][i].out.status,
                                attempt |-> i]

\* C5 witness: a request ended by an HTTP 500 while keys were left to try.
C5_Witness ==
    \E t \in Threads :
        /\ tpc[t] = "raised"
        /\ ret[t].exc.status = 500
        /\ Len(calls[t]) < Len(api_keys)

\* C6: for a pool of N >= 1 keys the cursor is always in 0..N-1, after any N
\* consecutive grants it is back where it was before them, and a rotator is
\* never built on an empty pool.
C6_CursorValidAndClosure ==
    /\ mgr = "ready" => current_key_index \in 0..(Len(api_keys) - 1)
    /\ (mgr = "ready" /\ key_lock = NoThread /\ Len(grants) = Len(api_keys))
          => current_key_index = grants[1].index
    /\ api_keys = <<>> => mgr # "ready"
    /\ (mgr = "ValueError") => api_keys = <<>>

\* C6 witness: N >= 2 grants have completed and the cursor has come round.
C6_Witness ==
    /\ mgr = "ready" /\ Len(api_keys) >= 2
    /\ key_lock = NoThread
    /\ Len(grants) = Len(api_keys)
    /\ current_key_index = grants[1].index

\* C7: read-and-advance is atomic: at most one thread is between the read and
\* the advance, and any k <= N grants in a row hand out k consecutive, pairwise
\* distinct indices.
C7_GrantsAtomic ==
    /\ Cardinality({t \in Threads : tpc[t] = "advance"}) <= 1
    /\ \A i \in 1..(Len(grants) - 1) :
          grants[i + 1].index = (grants[i].index + 1) % Len(api_keys)
    /\ \A i, j \in 1..Len(grants) : i # j => grants[i].index # grants[j].index

\* C7 witness: a worker waits for the lock that another worker holds, after
\* grants to two different workers.
C7_Witness ==
    \E a, b \in Workers :
        /\ a # b
        /\ key_lock = a /\ tpc[b] = "get_client"
        /\ Len(grants) >= 2
        /\ grants[Len(grants)].thread = a
        /\ grants[Len(grants) - 1].thread = b

====
